---- MODULE Spec2Model ----
(***************************************************************************)
(* Resilient email service: EmailService (submission, attempt loop,        *)
(* status projection), IdempotencyManager, EmailQueue and CircuitBreaker.  *)
(*                                                                         *)
(* One step of the model is one run-to-completion turn of the Node.js      *)
(* event loop: a handler runs from the event that wakes it (a call, a      *)
(* timer, a settled provider promise) to its next await on a timer or on   *)
(* the provider, microtask continuations included.                         *)
(*                                                                         *)
(* Time: every instant the program stores (expiresAt, executeAfter, the    *)
(* due time of a timer, nextAttemptTime) is kept as its distance from      *)
(* Date.now(): After(d) is the instant now + d, Tick moves the clock by    *)
(* one unit and so lowers every stored instant by one.  The code only      *)
(* compares stored instants with Date.now(), so instants in the past are   *)
(* not told apart; Unset stands for undefined / null.                      *)
(*                                                                         *)
(* Ten specifications share the variables: Spec is the service with its    *)
(* cache and queue (circuit breaker disabled, sendEmail called with the    *)
(* default priority and delay), SpecQueue is EmailQueue driven through     *)
(* add() with any priority and delay, stopProcessing and resume,           *)
(* SpecBreaker is one CircuitBreaker, SpecLimiter is the RateLimiter with  *)
(* its own clock in milliseconds, SpecRoutes is the pair of routes         *)
(* POST /send and POST /bulk-send in front of the queue, SpecGuarded is    *)
(* the service in direct mode behind the primary provider's breaker,       *)
(* SpecBackoff is the retry loop of one provider with its waits in ms,     *)
(* SpecCache is the IdempotencyManager driven through its methods,         *)
(* SpecQueueLive is the queue under fair scheduling with any priority, and *)
(* SpecQueueSweep is the queue with the stuck-job sweep and cleanup().     *)
(* The sweep only touches a job whose watchdog timer is overdue, and       *)
(* nothing in the program calls cleanup(): Spec and SpecQueue leave both   *)
(* out.                                                                    *)
(***************************************************************************)
EXTENDS Integers, Sequences, FiniteSets, TLC

VARIABLES
    enableQueue,    \* EmailService.config.enableQueue
    cache,          \* IdempotencyManager.cache : key -> entry
    jobs,           \* the job objects, by job id (shared by the containers)
    queue,          \* EmailQueue.queue      (array of jobs)
    processing,     \* EmailQueue.processing (Map jobId -> job)
    completed,      \* EmailQueue.completed  (array of jobs)
    failed,         \* EmailQueue.failed     (array of jobs)
    activeJobs,     \* EmailQueue.activeJobs
    isProcessing,   \* EmailQueue.isProcessing (the poll interval is armed)
    raceDeadline,   \* per job: due time of the unsettled Promise.race, else Unset
    run,            \* per job / direct call: position in the attempt loop
    nextId,         \* next job id (queue mode) or call id (direct mode)
    sendCount,      \* observer: provider successes per idempotency key
    dropped,        \* observer: the key's record was deleted by expiry
    outcome,        \* observer: first terminal outcome of the key's processing
    lastCall,       \* observer: the sendEmail call that returned in the last step
    lastDequeued,   \* observer: the _getNextJob calls of the last step
    lastSettled,    \* observer: the provider call that settled in the last step
    stopObs,        \* observer: what the queue did since stopProcessing
    cleaned,        \* observer: return value of the cleanupExpired of the last step
    lastRequest,    \* observer: the HTTP request answered in the last step
    cb,             \* CircuitBreaker fields
    cbCalls,        \* wrapped calls of the breaker that have not settled
    cbObs,          \* observer: breaker history since the last reset to CLOSED
    now,            \* Date.now() as the rate limiter reads it, in ms
    buckets,        \* RateLimiter.buckets : key -> bucket
    rlAllowed,      \* observer: calls allowed per key since its lastRefill was set
    rlObs,          \* observer: the rate limiter call of the last step
    twin,           \* observer: the buckets of a limiter given the same calls
                    \* but on which cleanupExpired never runs
    backoff         \* one _sendWithProvider call: config, attempt, delay, waits

vars == << enableQueue, cache, jobs, queue, processing, completed, failed,
           activeJobs, isProcessing, raceDeadline, run, nextId, sendCount,
           dropped, outcome, lastCall, lastDequeued, lastSettled, cb, cbCalls,
           cbObs, now, buckets, rlAllowed, rlObs, stopObs, lastRequest, backoff,
           cleaned, twin >>

svcVars == << enableQueue, cache, jobs, queue, processing, completed, failed,
              activeJobs, isProcessing, raceDeadline, run, nextId, sendCount,
              dropped, outcome, lastCall, lastDequeued, lastSettled, stopObs,
              cleaned >>

cbVars == << cb, cbCalls, cbObs >>

rlVars == << now, buckets, rlAllowed, rlObs, twin >>

routeVars == << lastRequest >>

boVars == << backoff >>

(***************************************************************************)
(* Bounds of the model                                                     *)
(***************************************************************************)
MaxPriority == 1      \* submitted priorities are 0..MaxPriority
MaxDelay == 1         \* submitted delays are 0..MaxDelay

MaxInFlight == 2      \* wrapped calls of the breaker in flight at once
MaxFailureCount == 5  \* the breaker's failureCount is followed up to this value
MaxTicks == 10        \* steps of the rate limiter's clock
MaxBulk == 2          \* emails in one bulk request
MaxBackoffRetries == 4 \* largest config.maxRetries of the backoff schedule

Keys == {"k1", "k2"}
Ids == {1, 2}           \* job ids (queue mode) / call ids (direct mode)
Priorities == 0..MaxPriority
Delays == 0..MaxDelay

(***************************************************************************)
(* Configuration (scaled: one clock unit stands for the shortest timer)    *)
(***************************************************************************)
ttl == 1                  \* IdempotencyManager.ttl
queueMaxRetries == 2      \* EmailQueue.config.maxRetries
retryDelay == 1           \* EmailQueue.config.retryDelay
maxConcurrency == 1       \* EmailQueue.config.maxConcurrency
jobTimeout == 2           \* EmailQueue.config.jobTimeout
maxRetries == 2           \* EmailService.config.maxRetries (per provider)
failureThreshold == 3     \* CircuitBreaker.config.failureThreshold
successThreshold == 2     \* CircuitBreaker.config.successThreshold
timeout == 2              \* CircuitBreaker.config.timeout

providers == << "primary", "secondary" >>

\* RateLimiter.config (60000 ms and 100 requests in the source)
windowMs == 2000
maxRequests == 3

\* the step in which Date.now() is seen to advance by the rate limiter, in ms
TickMs == 500

\* EmailQueue.cleanup: the jobs each history keeps (100 in the source)
keepCount == 1

\* validateEmailRequest: the largest priority and delay it lets through
priorityMax == 10
delayMax == 300000

(***************************************************************************)
(* Instants, relative to Date.now()                                        *)
(***************************************************************************)
Unset == -2                         \* undefined / null
After(d) == d                       \* Date.now() + d
Reached(x) == x # Unset /\ x <= 0   \* Date.now() >= x
Passed(x) == x # Unset /\ x < 0     \* Date.now() > x
\* a stored instant seen one unit later: expiresAt, tested with >, is told
\* apart down to -1; an instant only tested with >= is told apart down to 0
Later(x) == IF x = Unset \/ x = -1 THEN x ELSE x - 1
LaterDue(x) == IF x = Unset \/ x = 0 THEN x ELSE x - 1

(***************************************************************************)
(* Provider contract: one sendEmail call resolves with a result or rejects *)
(* with an error carrying code and retryable.                              *)
(***************************************************************************)
Success == [ok |-> TRUE, code |-> "none", retryable |-> TRUE]
Temporary == [ok |-> FALSE, code |-> "TEMPORARY_FAILURE", retryable |-> TRUE]
InvalidEmail == [ok |-> FALSE, code |-> "INVALID_EMAIL", retryable |-> FALSE]
AuthFailed == [ok |-> FALSE, code |-> "AUTHENTICATION_FAILED", retryable |-> FALSE]
Outcomes == {Success, Temporary, InvalidEmail, AuthFailed}

\* a classification that treats every error code as global
allGloballyNonRetryable(code) == TRUE

\* EmailService._isGloballyNonRetryable
IsGloballyNonRetryable(code) ==
    IF code \in {"INVALID_EMAIL", "CONTENT_REJECTED", "DOMAIN_BLOCKED", "RECIPIENT_REJECTED"}
    THEN FALSE
    ELSE code \in {"MALFORMED_EMAIL_DATA", "AUTHENTICATION_FAILED",
                   "QUOTA_EXCEEDED", "SERVICE_SUSPENDED"}

(***************************************************************************)
(* IdempotencyManager                                                      *)
(***************************************************************************)
\* A result object as the service stores and returns it; "undefined" and 0
\* stand for absent fields.
NoResult ==
    [status |-> "undefined", success |-> "undefined", jobId |-> 0,
     provider |-> "undefined", messageId |-> 0, code |-> "undefined",
     errorCode |-> "undefined", attempts |-> 0, currentProvider |-> "undefined"]

NoEntry == [status |-> "absent", attempts |-> 0, expiresAt |-> Unset, result |-> NoResult]

\* an expiry test that also takes the entry expiring at this very instant
isExpiredOrDue(entry) == entry.status # "absent" /\ Reached(entry.expiresAt)

\* the expiry test of get: Date.now() > entry.expiresAt
isExpired(entry) == entry.status # "absent" /\ Passed(entry.expiresAt)

\* get that never finds an entry
getNothing(c, k) == NoEntry

\* get: the live entry of key k, NoEntry for null
get(c, k) ==
    IF c[k].status = "absent" THEN NoEntry
    ELSE IF isExpired(c[k]) THEN NoEntry
    ELSE c[k]

\* the cache after get(k): an expired entry is deleted by the read
cacheAfterGet(c, k) == IF isExpired(c[k]) THEN [c EXCEPT ![k] = NoEntry] ELSE c

\* IdempotencyManager.cleanupExpired: every entry with now > expiresAt is
\* deleted; cleaned is the number returned
cleanupExpiredEntries(c) ==
    [cache |-> [k \in Keys |-> IF isExpired(c[k]) THEN NoEntry ELSE c[k]],
     cleaned |-> Cardinality({k \in Keys : isExpired(c[k])})]

\* set that stores nothing
setNothing(c, k, result, status) == c

set(c, k, result, status) ==
    [c EXCEPT ![k] = [status |-> status, attempts |-> 0, expiresAt |-> After(ttl),
                      result |-> result]]

markAsPending(c, k) == set(c, k, [NoResult EXCEPT !.status = "pending"], "pending")

markAsCompleted(c, k, result) == set(c, k, result, "completed")

markAsFailed(c, k, error) ==
    set(c, k, [NoResult EXCEPT !.errorCode = error.code], "failed")

\* an update that also writes the entry's status
updateToPending(c, k, p) ==
    [c EXCEPT ![k].result.currentProvider = p, ![k].status = "pending"]

\* update(k, {currentProvider: p, ...}) on an entry that get() found
update(c, k, p) == [c EXCEPT ![k].result.currentProvider = p]

\* incrementAttempts on an entry that get() found
incrementAttempts(c, k) ==
    LET existing == c[k]
        currentAttempts == IF existing.attempts # 0 THEN existing.attempts
                           ELSE existing.result.attempts
        newAttempts == currentAttempts + 1
    IN [c EXCEPT ![k].attempts = newAttempts, ![k].result.attempts = newAttempts]

\* The try block that opens every attempt of _sendWithProvider:
\* incrementAttempts then update, both throwing 'Idempotency key not found'
\* (caught and logged) when get() finds no live entry.
countAttempt(c, k, p) ==
    IF get(c, k) = NoEntry THEN cacheAfterGet(c, k)
    ELSE update(incrementAttempts(c, k), k, p)

(***************************************************************************)
(* EmailQueue: the job objects and the queue array                         *)
(***************************************************************************)
\* notBefore is an observer: the instant add time + delay of the submission
NoJob ==
    [key |-> "none", priority |-> 0, status |-> "none", attempts |-> 0,
     executeAfter |-> Unset, errorCode |-> "undefined",
     resultProvider |-> "undefined", resultMessageId |-> 0, notBefore |-> Unset]

\* _insertByPriority: before the first job of lower priority, else at the end
RECURSIVE insertAt(_, _, _, _)
insertAt(q, js, id, i) ==
    IF i > Len(q) THEN Append(q, id)
    ELSE IF js[id].priority > js[q[i]].priority
         THEN SubSeq(q, 1, i - 1) \o << id >> \o SubSeq(q, i, Len(q))
         ELSE insertAt(q, js, id, i + 1)

insertByPriority(q, js, id) == insertAt(q, js, id, 1)

\* a readiness test that ignores executeAfter
isReadyAlways(job) == TRUE

\* the readiness test of _getNextJob: !job.executeAfter || now >= job.executeAfter
isReady(job) == job.executeAfter = Unset \/ Reached(job.executeAfter)

\* a scan without the priority comparison: the last ready job wins
RECURSIVE scanAnyReady(_, _, _, _, _)
scanAnyReady(q, js, i, bestJobIndex, bestPriority) ==
    IF i > Len(q) THEN bestJobIndex
    ELSE IF isReady(js[q[i]])
         THEN scanAnyReady(q, js, i + 1, i, js[q[i]].priority)
         ELSE scanAnyReady(q, js, i + 1, bestJobIndex, bestPriority)

\* the scan of _getNextJob: index of the job to take, 0 for none
RECURSIVE scanQueue(_, _, _, _, _)
scanQueue(q, js, i, bestJobIndex, bestPriority) ==
    IF i > Len(q) THEN bestJobIndex
    ELSE IF isReady(js[q[i]]) /\ js[q[i]].priority > bestPriority
         THEN scanQueue(q, js, i + 1, i, js[q[i]].priority)
         ELSE scanQueue(q, js, i + 1, bestJobIndex, bestPriority)

getNextJob(q, js) == scanQueue(q, js, 1, 0, -1)

removeAt(q, i) == SubSeq(q, 1, i - 1) \o SubSeq(q, i + 1, Len(q))

(***************************************************************************)
(* The service state as one record, threaded through the handlers          *)
(***************************************************************************)
\* observer: stopProcessing has not been called since processing last started
NoStop == [stopped |-> FALSE, admitted |-> FALSE, started |-> FALSE]

\* observer: no provider call settled in the step
NoSettle == [id |-> 0, key |-> "none", provider |-> 0, attempt |-> 0,
             ok |-> FALSE, code |-> "none", retryable |-> TRUE]

State ==
    [cache |-> cache, jobs |-> jobs, queue |-> queue, processing |-> processing,
     completed |-> completed, failed |-> failed, activeJobs |-> activeJobs,
     isProcessing |-> isProcessing, raceDeadline |-> raceDeadline, run |-> run,
     nextId |-> nextId, sendCount |-> sendCount, dropped |-> dropped,
     outcome |-> outcome, log |-> << >>, settled |-> NoSettle, stop |-> stopObs,
     cleaned |-> Unset]

NoRun == [phase |-> "idle", provider |-> 0, attempt |-> 0, key |-> "none"]

NoOutcome == [status |-> "none", success |-> "undefined", provider |-> "undefined",
              messageId |-> 0, code |-> "undefined"]

NoCall == [kind |-> "none", key |-> "none", ret |-> NoResult,
           jobQueued |-> FALSE, terminal |-> FALSE, live |-> FALSE]

\* observer: the provider call of run id settled with outcome o
noteSettled(st, id, o) ==
    [st EXCEPT !.settled = [id |-> id, key |-> st.run[id].key,
                            provider |-> st.run[id].provider,
                            attempt |-> st.run[id].attempt,
                            ok |-> o.ok, code |-> o.code, retryable |-> o.retryable]]

\* observer: a read of key k deletes its entry when it has expired
noteExpiry(st, k) ==
    [st EXCEPT !.dropped[k] = @ \/ isExpired(st.cache[k]),
               !.cache = cacheAfterGet(st.cache, k)]

\* observer: the first terminal outcome of key k
noteOutcome(st, k, o) ==
    IF st.outcome[k].status = "none" THEN [st EXCEPT !.outcome[k] = o] ELSE st

(***************************************************************************)
(* EmailService._sendWithProvider / _processEmailDirectly                  *)
(***************************************************************************)
\* One turn of the while loop of _sendWithProvider up to the provider call:
\* the attempt is counted and provider.sendEmail is awaited.
beginAttempt(st, id, k, p, attempt) ==
    LET s1 == [st EXCEPT !.dropped[k] = @ \/ isExpired(st.cache[k]),
                         !.cache = countAttempt(st.cache, k, providers[p])]
    IN [s1 EXCEPT !.run[id] = [phase |-> "calling", provider |-> p,
                               attempt |-> attempt, key |-> k]]

\* the result object _processEmailDirectly returns on success
sentResult(p, messageId) ==
    [NoResult EXCEPT !.success = "true", !.status = "sent",
                     !.provider = providers[p], !.messageId = messageId]

(***************************************************************************)
(* EmailQueue._processJob after the processor settles, and the settling of *)
(* the Promise.race of _processJobWithTimeout (.finally of _processJobs)   *)
(***************************************************************************)
settleRace(st, id) ==
    IF st.raceDeadline[id] = Unset THEN st
    ELSE [st EXCEPT !.activeJobs = @ - 1, !.processing = @ \ {id},
                    !.raceDeadline[id] = Unset]

\* the processor resolves: job completed
processJobResolved(st, id, result) ==
    settleRace([st EXCEPT !.jobs[id].status = "completed",
                          !.jobs[id].resultProvider = result.provider,
                          !.jobs[id].resultMessageId = result.messageId,
                          !.completed = Append(@, id)], id)

\* a retry test that ignores the attempts made
shouldRetryRetryable(job, error) == error.retryable # FALSE

\* a retry test that ignores error.retryable
shouldRetryWhileAttemptsLeft(job, error) == job.attempts < queueMaxRetries

\* the retry test of _processJob
shouldRetryJob(job, error) == job.attempts < queueMaxRetries /\ error.retryable # FALSE

\* the processor rejects: job re-queued for retry, or failed
processJobRejected(st, id, error) ==
    settleRace(
        IF shouldRetryJob(st.jobs[id], error)
        THEN LET js == [st.jobs EXCEPT ![id].status = "retrying",
                                       ![id].executeAfter =
                                           After(retryDelay * st.jobs[id].attempts)]
             IN [st EXCEPT !.jobs = js, !.queue = insertByPriority(@, js, id)]
        ELSE [st EXCEPT !.jobs[id].status = "failed",
                        !.jobs[id].errorCode = error.code,
                        !.failed = Append(@, id)], id)

\* the watchdog of _processJobWithTimeout rejects the race: .catch then .finally
timeoutRace(st, id) ==
    settleRace(
        IF st.jobs[id].status = "processing"
        THEN [st EXCEPT !.jobs[id].status = "failed",
                        !.jobs[id].errorCode = "PROCESSING_TIMEOUT",
                        !.failed = Append(@, id)]
        ELSE st, id)

(***************************************************************************)
(* The end of _processEmailDirectly, seen by its caller: _processEmailJob  *)
(* (queue mode) or sendEmail (direct mode)                                 *)
(***************************************************************************)
\* the errorResult sendEmail returns from its catch block
errorResult(error) ==
    [NoResult EXCEPT !.success = "false", !.status = "failed", !.code = error.code]

runResolved(st, id, result, queued) ==
    LET k == st.run[id].key
        s1 == noteOutcome(st, k, [status |-> "sent", success |-> "true",
                                  provider |-> result.provider,
                                  messageId |-> result.messageId, code |-> "undefined"])
        s2 == [s1 EXCEPT !.cache = markAsCompleted(@, k, result), !.run[id] = NoRun]
    IN IF queued THEN processJobResolved(s2, id, result) ELSE s2

runRejected(st, id, error, queued) ==
    LET k == st.run[id].key
        s1 == noteOutcome(st, k, [status |-> "failed", success |-> "false",
                                  provider |-> "undefined", messageId |-> 0,
                                  code |-> error.code])
        s2 == [s1 EXCEPT !.cache = markAsFailed(@, k, error), !.run[id] = NoRun]
    IN IF queued THEN processJobRejected(s2, id, error) ELSE s2

\* the same continuation with the exhaustion test attempt > maxRetries
attemptSettledOneMore(st, id, o, queued) ==
    LET r == st.run[id]
        k == r.key
    IN IF o.ok
       THEN LET s1 == [st EXCEPT !.sendCount[k] = @ + 1]
            IN runResolved(s1, id, sentResult(r.provider, s1.sendCount[k]), queued)
       ELSE IF r.attempt > maxRetries \/ o.retryable = FALSE
            THEN IF o.retryable = FALSE /\ IsGloballyNonRetryable(o.code)
                 THEN runRejected(st, id, o, queued)
                 ELSE IF r.provider < Len(providers)
                      THEN beginAttempt(noteExpiry(st, k), id, k, r.provider + 1, 1)
                      ELSE runRejected(st, id, o, queued)
            ELSE [st EXCEPT !.run[id].phase = "sleeping"]

\* The continuation of _sendWithProvider and _processEmailDirectly when the
\* provider call of run id settles with outcome o.
attemptSettled(st, id, o, queued) ==
    LET r == st.run[id]
        k == r.key
    IN IF o.ok
       THEN LET s1 == [st EXCEPT !.sendCount[k] = @ + 1]
            IN runResolved(s1, id, sentResult(r.provider, s1.sendCount[k]), queued)
       ELSE IF r.attempt >= maxRetries \/ o.retryable = FALSE
            THEN \* _sendWithProvider throws; catch block of _processEmailDirectly
                 IF o.retryable = FALSE /\ IsGloballyNonRetryable(o.code)
                 THEN runRejected(st, id, o, queued)
                 ELSE IF r.provider < Len(providers)
                      THEN beginAttempt(noteExpiry(st, k), id, k, r.provider + 1, 1)
                      ELSE runRejected(st, id, o, queued)
            ELSE \* await this._sleep(actualDelay)
                 [st EXCEPT !.run[id].phase = "sleeping"]

\* the sleep of _sendWithProvider ends: next turn of its while loop
sleepDone(st, id) ==
    LET r == st.run[id]
    IN beginAttempt(st, id, r.key, r.provider, r.attempt + 1)

(***************************************************************************)
(* EmailQueue.add, _processJobs, getJob                                    *)
(***************************************************************************)
\* add: the new job gets id st.nextId; startProcessing arms the poll interval
add(st, k, priority, delay) ==
    LET id == st.nextId
        job == [NoJob EXCEPT !.key = k, !.priority = priority, !.status = "queued",
                             !.executeAfter = IF delay > 0 THEN After(delay) ELSE Unset,
                             !.notBefore = IF delay > 0 THEN After(delay) ELSE Unset]
        js == [st.jobs EXCEPT ![id] = job]
    IN [st EXCEPT !.jobs = js, !.queue = insertByPriority(@, js, id),
                  !.isProcessing = TRUE, !.nextId = id + 1]

\* observer: the highest priority among the ready jobs of the queue, -1 if none
bestReadyPriority(q, js) ==
    LET due(job) == job.executeAfter = Unset \/ job.executeAfter <= 0
        ready == {js[q[i]].priority : i \in {j \in 1..Len(q) : due(js[q[j]])}}
    IN IF ready = {} THEN -1 ELSE CHOOSE p \in ready : \A r \in ready : r <= p

\* _processJobs: the while loop; each job taken starts _processJobWithTimeout,
\* which arms the watchdog and runs _processJob up to the processor call
RECURSIVE processJobs(_)
processJobs(st) ==
    IF st.activeJobs < maxConcurrency
    THEN LET i == getNextJob(st.queue, st.jobs)
         IN IF i = 0 THEN st
            ELSE LET id == st.queue[i]
                     job == st.jobs[id]
                     taken == [id |-> id, priority |-> job.priority,
                               executeAfter |-> job.executeAfter,
                               notBefore |-> job.notBefore,
                               bestReady |-> bestReadyPriority(st.queue, st.jobs)]
                     s1 == [st EXCEPT !.queue = removeAt(@, i),
                                      !.activeJobs = @ + 1,
                                      !.processing = @ \cup {id},
                                      !.raceDeadline[id] = After(jobTimeout),
                                      !.jobs[id].attempts = @ + 1,
                                      !.jobs[id].status = "processing",
                                      !.log = Append(@, taken)]
                 IN processJobs([s1 EXCEPT !.run[id] = [NoRun EXCEPT !.phase = "invoked",
                                                                    !.key = job.key]])
    ELSE st

\* The processor EmailService registers, _processEmailJob, runs inside
\* _processJob up to its first provider call for every job the loop took.
RECURSIVE invokeProcessor(_, _)
invokeProcessor(st, id) ==
    IF id \notin Ids THEN st
    ELSE IF st.run[id].phase = "invoked"
         THEN invokeProcessor(beginAttempt(st, id, st.run[id].key, 1, 1), id + 1)
         ELSE invokeProcessor(st, id + 1)

SeqToSet(q) == {q[i] : i \in 1..Len(q)}

\* getJob: TRUE when one of the four containers holds job id
getJob(st, id) ==
    \/ id \in st.processing
    \/ id \in SeqToSet(st.queue)
    \/ id \in SeqToSet(st.completed)
    \/ id \in SeqToSet(st.failed)

(***************************************************************************)
(* EmailService.getEmailStatus (on the cache as get() leaves it)           *)
(***************************************************************************)
NotFound == [found |-> FALSE, status |-> "not_found", attempts |-> 0,
             provider |-> "undefined", messageId |-> 0, errorCode |-> "undefined"]

Max(a, b) == IF a >= b THEN a ELSE b

getEmailStatus(st, k) ==
    LET entry == get(st.cache, k)
        jobId == entry.result.jobId
    IN IF entry = NoEntry THEN NotFound
       ELSE IF jobId # 0
            THEN IF getJob(st, jobId)
                 THEN LET job == st.jobs[jobId]
                          sent == job.status = "completed"
                          fail == job.status = "failed" /\ job.errorCode # "undefined"
                      IN [found |-> TRUE,
                          status |-> IF sent THEN "sent" ELSE job.status,
                          attempts |-> Max(entry.attempts, job.attempts),
                          provider |-> IF sent THEN job.resultProvider ELSE "undefined",
                          messageId |-> IF sent THEN job.resultMessageId ELSE 0,
                          errorCode |-> IF fail THEN job.errorCode ELSE "undefined"]
                 ELSE [NotFound EXCEPT !.found = TRUE, !.status = entry.status,
                                       !.attempts = entry.attempts]
            ELSE LET sent == entry.status = "completed" /\ entry.result.success = "true"
                     fail == entry.status = "failed" /\ entry.result.errorCode # "undefined"
                 IN [found |-> TRUE,
                     status |-> IF sent THEN "sent" ELSE entry.status,
                     attempts |-> entry.attempts,
                     provider |-> IF sent THEN entry.result.provider ELSE "undefined",
                     messageId |-> IF sent THEN entry.result.messageId ELSE 0,
                     errorCode |-> IF fail THEN entry.result.errorCode ELSE "undefined"]

(***************************************************************************)
(* Actions of the service                                                  *)
(***************************************************************************)
\* observer: after stopProcessing, a job was added (the job counter moved)
\* or _getNextJob handed out a job
noteAfterStop(st) ==
    IF st.stop.stopped
    THEN [st.stop EXCEPT !.admitted = @ \/ st.nextId # nextId,
                         !.started = @ \/ st.log # << >>]
    ELSE st.stop

CommitService(st, call) ==
    /\ cache' = st.cache
    /\ jobs' = st.jobs
    /\ queue' = st.queue
    /\ processing' = st.processing
    /\ completed' = st.completed
    /\ failed' = st.failed
    /\ activeJobs' = st.activeJobs
    /\ isProcessing' = st.isProcessing
    /\ raceDeadline' = st.raceDeadline
    /\ run' = st.run
    /\ nextId' = st.nextId
    /\ sendCount' = st.sendCount
    /\ dropped' = st.dropped
    /\ outcome' = st.outcome
    /\ lastDequeued' = st.log
    /\ lastSettled' = st.settled
    /\ stopObs' = noteAfterStop(st)
    /\ cleaned' = st.cleaned
    /\ lastCall' = call
    /\ UNCHANGED enableQueue

Commit(st, call) == CommitService(st, call) /\ UNCHANGED << cbVars, rlVars, routeVars, boVars >>

\* observer: a job of key k sits in the queue in status queued
jobQueuedFor(k) ==
    \E i \in 1..Len(queue) : jobs[queue[i]].key = k /\ jobs[queue[i]].status = "queued"

\* observer: the record of key k holds a terminal outcome of its processing
isTerminal(entry) ==
    \/ entry.status = "failed"
    \/ entry.status = "completed" /\ entry.result.status = "sent"

\* the result sendEmail returns when the record is pending
pendingResult == [NoResult EXCEPT !.success = "false", !.status = "pending"]

\* the result sendEmail returns after enqueueing job id
queuedResult(id) == [NoResult EXCEPT !.success = "true", !.status = "queued", !.jobId = id]

\* sendEmail({idempotencyKey: k, priority, delay}) up to its return or, in
\* direct mode, its first provider call
SendEmail(k, priority, delay) ==
    LET st == noteExpiry(State, k)
        existingResult == get(st.cache, k)
    IN IF existingResult # NoEntry
       THEN Commit(st, [kind |-> "duplicate", key |-> k,
                        ret |-> IF existingResult.status = "pending" THEN pendingResult
                                ELSE existingResult.result,
                        jobQueued |-> jobQueuedFor(k),
                        terminal |-> isTerminal(existingResult),
                        live |-> ~st.dropped[k]])
       ELSE /\ nextId \in Ids
            /\ LET s1 == [st EXCEPT !.cache = markAsPending(@, k)]
               IN IF enableQueue
                  THEN LET id == s1.nextId
                           s2 == add(s1, k, priority, delay)
                           result == queuedResult(id)
                       IN Commit([s2 EXCEPT !.cache = markAsCompleted(@, k, result)],
                                 [kind |-> "fresh", key |-> k, ret |-> result,
                                  jobQueued |-> TRUE, terminal |-> FALSE,
                                  live |-> ~s2.dropped[k]])
                  ELSE Commit(beginAttempt([s1 EXCEPT !.nextId = @ + 1],
                                              s1.nextId, k, 1, 1), NoCall)

\* the poll interval of startProcessing fires: _processJobs
ProcessJobs ==
    /\ isProcessing
    /\ Commit(invokeProcessor(processJobs(State), 1), NoCall)

\* the provider call of run id settles with outcome o
ProviderSettles(id, o) ==
    /\ run[id].phase = "calling"
    /\ LET st == attemptSettled(noteSettled(State, id, o), id, o, enableQueue)
           k == run[id].key
           returned == ~enableQueue /\ st.run[id] = NoRun
           ret == IF o.ok THEN st.cache[k].result ELSE errorResult(o)
       IN Commit(st, IF returned
                     THEN [kind |-> "fresh", key |-> k, ret |-> ret,
                           jobQueued |-> FALSE, terminal |-> FALSE,
                           live |-> ~st.dropped[k]]
                     ELSE NoCall)

\* the backoff sleep of run id ends
SleepEnds(id) ==
    /\ run[id].phase = "sleeping"
    /\ Commit(sleepDone(State, id), NoCall)

\* the watchdog timer of job id's race fires
JobTimeout(id) ==
    /\ Reached(raceDeadline[id])
    /\ Commit(timeoutRace(State, id), NoCall)

\* getEmailStatus(k): its only effect on the state is the deletion of an
\* expired record by get()
GetEmailStatus(k) ==
    /\ isExpired(cache[k])
    /\ Commit(noteExpiry(State, k), NoCall)

\* The clock advances by one unit.  A due watchdog fires before the clock
\* moves on.
Tick ==
    /\ \A id \in Ids : ~Reached(raceDeadline[id])
    /\ Commit([State EXCEPT
                 !.cache = [k \in Keys |-> [cache[k] EXCEPT !.expiresAt = Later(@)]],
                 !.jobs = [id \in Ids |-> [jobs[id] EXCEPT !.executeAfter = LaterDue(@),
                                                           !.notBefore = LaterDue(@)]],
                 !.raceDeadline = [id \in Ids |-> LaterDue(raceDeadline[id])]],
              NoCall)

(***************************************************************************)
(* CircuitBreaker                                                          *)
(***************************************************************************)
\* the fields after the constructor
NewBreaker == [state |-> "CLOSED", failureCount |-> 0, successCount |-> 0,
               nextAttemptTime |-> Unset]

\* a _setState whose CLOSED case leaves the counters alone
setStateKeepCounts(b, newState) ==
    CASE newState = "CLOSED" -> [b EXCEPT !.state = newState, !.nextAttemptTime = Unset]
      [] newState = "OPEN" ->
             [b EXCEPT !.state = newState, !.successCount = 0,
                       !.nextAttemptTime = After(timeout)]
      [] newState = "HALF_OPEN" ->
             [b EXCEPT !.state = newState, !.successCount = 0]

\* _setState
setState(b, newState) ==
    CASE newState = "CLOSED" ->
             [b EXCEPT !.state = newState, !.failureCount = 0, !.successCount = 0,
                       !.nextAttemptTime = Unset]
      [] newState = "OPEN" ->
             [b EXCEPT !.state = newState, !.successCount = 0,
                       !.nextAttemptTime = After(timeout)]
      [] newState = "HALF_OPEN" ->
             [b EXCEPT !.state = newState, !.successCount = 0]

\* an open check that never looks at the clock
rejectsWhileOpen(b) == b.state = "OPEN"

\* execute, before the wrapped call: TRUE when it throws CIRCUIT_BREAKER_OPEN
rejectsCall(b) == b.state = "OPEN" /\ ~Reached(b.nextAttemptTime)

\* execute, before the wrapped call: the breaker when the call is let through
admitCall(b) == IF b.state = "OPEN" THEN setState(b, "HALF_OPEN") ELSE b

\* an _onSuccess that closes the breaker on the first success
onSuccessCloseAtOnce(b) ==
    IF b.state = "HALF_OPEN" THEN setState(b, "CLOSED")
    ELSE IF b.state = "CLOSED" THEN [b EXCEPT !.failureCount = 0]
    ELSE b

\* _onSuccess
onSuccess(b) ==
    IF b.state = "HALF_OPEN"
    THEN LET b1 == [b EXCEPT !.successCount = @ + 1]
         IN IF b1.successCount >= successThreshold THEN setState(b1, "CLOSED") ELSE b1
    ELSE IF b.state = "CLOSED" THEN [b EXCEPT !.failureCount = 0]
    ELSE b

\* _onFailure
onFailure(b, error) ==
    LET b1 == [b EXCEPT !.failureCount = @ + 1]
    IN IF error.retryable = FALSE THEN b1
       ELSE IF b1.state = "HALF_OPEN" THEN setState(b1, "OPEN")
       ELSE IF b1.state = "CLOSED" /\ b1.failureCount >= failureThreshold
            THEN setState(b1, "OPEN")
       ELSE b1

\* observer: streak counts the retryable failures seen while CLOSED since the
\* breaker last entered CLOSED, was reset or saw a success; opened tells how the breaker
\* left CLOSED for OPEN and streakAtOpen the streak at that step; before,
\* failuresBefore and last describe the last step; fresh is, while
\* HALF_OPEN, the calls let through since the breaker entered HALF_OPEN
\* less the results accounted since then
NoObs == [streak |-> 0, opened |-> "no", streakAtOpen |-> 0,
          before |-> "CLOSED", failuresBefore |-> 0, last |-> "none", fresh |-> 0]

observe(obs, b, b2, event) ==
    LET streak == IF b2.state = "CLOSED" /\ (b.state # "CLOSED" \/ event \in {"success", "reset"})
                  THEN 0
                  ELSE IF b.state = "CLOSED" /\ event = "retryable" THEN obs.streak + 1
                  ELSE obs.streak
    IN [streak |-> streak,
        opened |-> IF b.state = "CLOSED" /\ b2.state = "OPEN"
                   THEN (IF event = "forced" THEN "forced" ELSE "failure")
                   ELSE IF b2.state = "CLOSED" THEN "no" ELSE obs.opened,
        streakAtOpen |-> IF b.state = "CLOSED" /\ b2.state = "OPEN" THEN streak
                         ELSE IF b2.state = "CLOSED" THEN 0 ELSE obs.streakAtOpen,
        before |-> b.state, failuresBefore |-> b.failureCount, last |-> event,
        fresh |-> IF b2.state # "HALF_OPEN" THEN 0
                  ELSE IF event = "admitted"
                       THEN (IF b.state = "OPEN" THEN 1 ELSE obs.fresh + 1)
                  ELSE IF event \in {"success", "retryable", "nonretryable"}
                       THEN Max(obs.fresh - 1, 0)
                  ELSE obs.fresh]

CommitBreaker(b2, calls, event) ==
    /\ cb' = b2
    /\ cbCalls' = calls
    /\ cbObs' = observe(cbObs, cb, b2, event)
    /\ UNCHANGED << svcVars, rlVars, routeVars, boVars >>

\* execute(fn): up to the await of the wrapped call, or the throw
Execute ==
    IF rejectsCall(cb) THEN CommitBreaker(cb, cbCalls, "rejected")
    ELSE /\ cbCalls < MaxInFlight
         /\ CommitBreaker(admitCall(cb), cbCalls + 1, "admitted")

\* a wrapped call resolves
CallSucceeds ==
    /\ cbCalls > 0
    /\ CommitBreaker(onSuccess(cb), cbCalls - 1, "success")

\* a wrapped call rejects with error.retryable = retryable
CallFails(retryable) ==
    /\ cbCalls > 0
    /\ cb.failureCount < MaxFailureCount
    /\ CommitBreaker(onFailure(cb, [retryable |-> retryable]), cbCalls - 1,
                     IF retryable THEN "retryable" ELSE "nonretryable")

\* reset()
Reset == CommitBreaker(setState(cb, "CLOSED"), cbCalls, "reset")

\* forceOpen()
ForceOpen == CommitBreaker(setState(cb, "OPEN"), cbCalls, "forced")

\* the clock advances by one unit
TickBreaker ==
    CommitBreaker([cb EXCEPT !.nextAttemptTime = LaterDue(@)], cbCalls, "tick")

InitBreaker ==
    /\ cb = NewBreaker
    /\ cbCalls = 0
    /\ cbObs = NoObs

(***************************************************************************)
(* The service in direct mode with enableCircuitBreaker: every call of the *)
(* primary provider goes through the breaker cb.  The breaker of the       *)
(* secondary provider, a second instance, is taken as CLOSED throughout.   *)
(***************************************************************************)
\* the error execute throws while OPEN: code CIRCUIT_BREAKER_OPEN and no
\* retryable field, which the retry tests (retryable === false) read as
\* retryable
BreakerOpen == [ok |-> FALSE, code |-> "CIRCUIT_BREAKER_OPEN", retryable |-> TRUE]

\* circuitBreaker.execute(provider.sendEmail) for the attempt run id has just
\* begun: a call on primary is thrown back by an OPEN breaker and the catch
\* block of _sendWithProvider runs in the same turn, or it is let through
throughBreaker(st, id) ==
    IF st.run[id].phase = "calling" /\ st.run[id].provider = 1
    THEN IF rejectsCall(cb)
         THEN [st |-> attemptSettled(noteSettled(st, id, BreakerOpen), id,
                                     BreakerOpen, FALSE),
               b |-> cb, calls |-> cbCalls, event |-> "rejected"]
         ELSE [st |-> st, b |-> admitCall(cb), calls |-> cbCalls + 1,
               event |-> "admitted"]
    ELSE [st |-> st, b |-> cb, calls |-> cbCalls, event |-> "none"]

CommitGuarded(r, call) ==
    /\ CommitService(r.st, call)
    /\ cb' = r.b
    /\ cbCalls' = r.calls
    /\ cbObs' = IF r.event = "none" THEN cbObs ELSE observe(cbObs, cb, r.b, r.event)
    /\ UNCHANGED << rlVars, routeVars, boVars >>

\* sendEmail({idempotencyKey: k}) in direct mode, up to its return or its
\* first await on a provider or a sleep
GuardedSend(k) ==
    LET st == noteExpiry(State, k)
        existingResult == get(st.cache, k)
    IN IF existingResult # NoEntry
       THEN CommitGuarded([st |-> st, b |-> cb, calls |-> cbCalls, event |-> "none"],
                          [kind |-> "duplicate", key |-> k,
                           ret |-> IF existingResult.status = "pending"
                                   THEN pendingResult ELSE existingResult.result,
                           jobQueued |-> FALSE,
                           terminal |-> isTerminal(existingResult),
                           live |-> ~st.dropped[k]])
       ELSE /\ nextId \in Ids
            /\ LET s1 == [st EXCEPT !.cache = markAsPending(@, k), !.nextId = @ + 1]
               IN CommitGuarded(throughBreaker(beginAttempt(s1, st.nextId, k, 1, 1),
                                               st.nextId), NoCall)

\* the provider call of run id settles with outcome o; a call on primary
\* was wrapped by the breaker, whose _onSuccess / _onFailure runs first
GuardedSettles(id, o) ==
    /\ run[id].phase = "calling"
    /\ LET wrapped == run[id].provider = 1
           st == attemptSettled(noteSettled(State, id, o), id, o, FALSE)
           k == run[id].key
           b2 == IF ~wrapped THEN cb
                 ELSE IF o.ok THEN onSuccess(cb) ELSE onFailure(cb, o)
       IN CommitGuarded([st |-> st, b |-> b2,
                         calls |-> IF wrapped THEN cbCalls - 1 ELSE cbCalls,
                         event |-> IF ~wrapped THEN "none"
                                   ELSE IF o.ok THEN "success"
                                   ELSE IF o.retryable THEN "retryable"
                                   ELSE "nonretryable"],
                        IF st.run[id] = NoRun
                        THEN [kind |-> "fresh", key |-> k,
                              ret |-> IF o.ok THEN st.cache[k].result ELSE errorResult(o),
                              jobQueued |-> FALSE, terminal |-> FALSE,
                              live |-> ~st.dropped[k]]
                        ELSE NoCall)

\* the backoff sleep of run id ends: the next attempt goes to the breaker
GuardedSleepEnds(id) ==
    /\ run[id].phase = "sleeping"
    /\ CommitGuarded(throughBreaker(sleepDone(State, id), id), NoCall)

\* the clock advances by one unit
TickGuarded ==
    CommitGuarded([st |-> [State EXCEPT
                             !.cache = [k \in Keys |->
                                          [cache[k] EXCEPT !.expiresAt = Later(@)]]],
                   b |-> [cb EXCEPT !.nextAttemptTime = LaterDue(@)],
                   calls |-> cbCalls, event |-> "tick"], NoCall)

(***************************************************************************)
(* RateLimiter: one token bucket per key, refilled in full once windowMs   *)
(* has passed since lastRefill.  The requests array of a bucket, which     *)
(* only feeds the log line of a denial, is left out.                       *)
(***************************************************************************)
Ips == {"ipA", "ipB"}

NoBucket == [tokens |-> 0, lastRefill |-> Unset]

\* Math.ceil(x / 1000)
CeilSeconds(x) == IF x >= 0 THEN (x + 999) \div 1000 ELSE -((-x) \div 1000)

\* a key generator that maps every request to one key
oneKeyForAll(ip) == "ipA"

\* _defaultKeyGenerator: req.ip
keyGenerator(ip) == ip

\* a window test that misses the instant lastRefill + windowMs
windowOverrun(bucket, t) == t - bucket.lastRefill > windowMs

\* the test of _refillBucket: timeElapsed >= windowMs
windowElapsed(bucket, t) == t - bucket.lastRefill >= windowMs

\* _refillBucket
refillBucket(bucket, t) ==
    IF windowElapsed(bucket, t)
    THEN [bucket EXCEPT !.tokens = maxRequests, !.lastRefill = t]
    ELSE bucket

\* a token test that also passes at zero
hasTokenOrNone(bucket) == bucket.tokens >= 0

\* the admission test of checkLimit: bucket.tokens > 0
hasToken(bucket) == bucket.tokens > 0

\* the result object of no call
NoLimit == [allowed |-> FALSE, tokens |-> 0, resetTime |-> Unset, retryAfter |-> 0]

\* checkLimit(req) at time t: the buckets after the call and its result;
\* retryAfter 0 stands for null
checkLimit(bs, ip, t) ==
    LET key == keyGenerator(ip)
        created == IF bs[key] = NoBucket
                   THEN [tokens |-> maxRequests, lastRefill |-> t]
                   ELSE bs[key]
        bucket == refillBucket(created, t)
    IN IF hasToken(bucket)
       THEN [buckets |-> [bs EXCEPT ![key] = [bucket EXCEPT !.tokens = @ - 1]],
             result |-> [allowed |-> TRUE, tokens |-> bucket.tokens - 1,
                         resetTime |-> bucket.lastRefill + windowMs,
                         retryAfter |-> 0]]
       ELSE [buckets |-> [bs EXCEPT ![key] = bucket],
             result |-> [allowed |-> FALSE, tokens |-> 0,
                         resetTime |-> bucket.lastRefill + windowMs,
                         retryAfter |-> CeilSeconds(bucket.lastRefill + windowMs - t)]]

\* reset(key)
resetKey(bs, key) == [bs EXCEPT ![key] = NoBucket]

\* a cleanup that deletes a bucket half way through its window
cleanupAfterHalfWindow(bs, t) ==
    [key \in Ips |-> IF bs[key] # NoBucket /\ t - bs[key].lastRefill > windowMs \div 2
                     THEN NoBucket ELSE bs[key]]

\* cleanupExpired: buckets unused for more than twice the window are deleted
cleanupExpired(bs, t) ==
    [key \in Ips |-> IF bs[key] # NoBucket /\ t - bs[key].lastRefill > windowMs * 2
                     THEN NoBucket ELSE bs[key]]

\* clear
clearBuckets(bs) == [key \in Ips |-> NoBucket]

NoLimitObs == [kind |-> "none", ip |-> "none", result |-> NoLimit, before |-> NoBucket]

\* observer: the calls allowed for ip since the lastRefill of its bucket was
\* set, after a call that turned the buckets bs into bs2
countAllowed(counts, bs, bs2, ip, result) ==
    LET fresh == bs[ip] = NoBucket \/ bs2[ip].lastRefill # bs[ip].lastRefill
        base == IF fresh THEN 0 ELSE counts[ip]
    IN [counts EXCEPT ![ip] = IF result.allowed THEN base + 1 ELSE base]

\* observer: the twin limiter after the call obs at time t
twinAfter(obs, t) ==
    CASE obs.kind = "check" -> checkLimit(twin, obs.ip, t).buckets
      [] obs.kind = "reset" -> resetKey(twin, obs.ip)
      [] obs.kind = "clear" -> clearBuckets(twin)
      [] OTHER -> twin

CommitLimiter(t, bs, counts, obs) ==
    /\ twin' = twinAfter(obs, t)
    /\ now' = t
    /\ buckets' = bs
    /\ rlAllowed' = counts
    /\ rlObs' = obs
    /\ UNCHANGED << svcVars, cbVars, routeVars, boVars >>

\* checkLimit, called by the middleware or through checkKey
CheckLimit(ip) ==
    LET r == checkLimit(buckets, ip, now)
    IN CommitLimiter(now, r.buckets,
                     countAllowed(rlAllowed, buckets, r.buckets, ip, r.result),
                     [kind |-> "check", ip |-> ip, result |-> r.result,
                      before |-> buckets[ip]])

ResetKey(ip) ==
    /\ buckets[ip] # NoBucket
    /\ CommitLimiter(now, resetKey(buckets, ip), rlAllowed,
                     [NoLimitObs EXCEPT !.kind = "reset", !.ip = ip])

\* the cleanup interval fires
CleanupExpired ==
    /\ cleanupExpired(buckets, now) # buckets
    /\ CommitLimiter(now, cleanupExpired(buckets, now), rlAllowed,
                     [NoLimitObs EXCEPT !.kind = "cleanup"])

Clear ==
    /\ buckets # clearBuckets(buckets)
    /\ CommitLimiter(now, clearBuckets(buckets), rlAllowed,
                     [NoLimitObs EXCEPT !.kind = "clear"])

\* the clock advances by TickMs
TickLimiter ==
    /\ now < MaxTicks * TickMs
    /\ CommitLimiter(now + TickMs, buckets, rlAllowed, NoLimitObs)

InitLimiter ==
    /\ now = 0
    /\ buckets = [key \in Ips |-> NoBucket]
    /\ rlAllowed = [key \in Ips |-> 0]
    /\ rlObs = NoLimitObs
    /\ twin = [key \in Ips |-> NoBucket]

(***************************************************************************)
(* The HTTP routes POST /send and POST /bulk-send in queue mode.  The      *)
(* fields to, subject, body and idempotencyKey of a request are present    *)
(* and well formed; priority and delay are numbers.                        *)
(***************************************************************************)
RoutePriorities == {-1, 0, priorityMax, priorityMax + 1}
RouteDelays == {-1, 0, delayMax, delayMax + 1}

\* the email objects of the request bodies: one of priority and delay is
\* given, the other is left at 0
Emails ==
    {e \in [key : Keys, priority : RoutePriorities, delay : RouteDelays] :
        e.priority = 0 \/ e.delay = 0}

\* the emails arrays of a bulk request
Bulks == UNION {[1..n -> Emails] : n \in 1..MaxBulk}

NoRequest == [path |-> "none", emails |-> << >>, status |-> 0]

\* validateEmailRequest: the checks of the optional fields priority and delay
validateEmailRequest(email) ==
    /\ ~(email.priority < 0 \/ email.priority > priorityMax)
    /\ ~(email.delay < 0 \/ email.delay > delayMax)

\* sendEmail in queue mode as a function of the state: the state after the
\* call and the call as lastCall records it
sendEmailQueued(st0, k, priority, delay) ==
    LET st == noteExpiry(st0, k)
        existingResult == get(st.cache, k)
        queuedNow == \E i \in 1..Len(st.queue) :
                        /\ st.jobs[st.queue[i]].key = k
                        /\ st.jobs[st.queue[i]].status = "queued"
    IN IF existingResult # NoEntry
       THEN [st |-> st,
             call |-> [kind |-> "duplicate", key |-> k,
                       ret |-> IF existingResult.status = "pending" THEN pendingResult
                               ELSE existingResult.result,
                       jobQueued |-> queuedNow,
                       terminal |-> isTerminal(existingResult),
                       live |-> ~st.dropped[k]]]
       ELSE LET s1 == [st EXCEPT !.cache = markAsPending(@, k)]
                id == s1.nextId
                s2 == add(s1, k, priority, delay)
                result == queuedResult(id)
            IN [st |-> [s2 EXCEPT !.cache = markAsCompleted(@, k, result)],
                call |-> [kind |-> "fresh", key |-> k, ret |-> result,
                          jobQueued |-> TRUE, terminal |-> FALSE,
                          live |-> ~s2.dropped[k]]]

\* the status code POST /send answers a sendEmail result with
sendStatus(result) ==
    IF result.success = "true"
    THEN IF result.status = "queued" THEN 202 ELSE 200
    ELSE 400

\* the for loop of POST /bulk-send from index i on
RECURSIVE bulkSend(_, _, _)
bulkSend(r, emails, i) ==
    IF i > Len(emails) THEN r
    ELSE bulkSend(sendEmailQueued(r.st, emails[i].key, emails[i].priority,
                                  emails[i].delay), emails, i + 1)

\* job ids nextId .. nextId + n - 1 are within the modelled range
idsLeft(n) == \A i \in 0..(n - 1) : nextId + i \in Ids

\* POST /send: validateEmailRequest, the rate limiter middleware, sendEmail
PostSend(ip, email) ==
    /\ idsLeft(1)
    /\ UNCHANGED << cbVars, boVars >>
    /\ IF ~validateEmailRequest(email)
       THEN /\ lastRequest' = [path |-> "send", emails |-> << email >>, status |-> 400]
            /\ UNCHANGED << svcVars, rlVars >>
       ELSE LET r == checkLimit(buckets, ip, now)
            IN /\ now' = now
               /\ buckets' = r.buckets
               /\ rlAllowed' = countAllowed(rlAllowed, buckets, r.buckets, ip, r.result)
               /\ rlObs' = [kind |-> "check", ip |-> ip, result |-> r.result,
                            before |-> buckets[ip]]
               /\ twin' = checkLimit(twin, ip, now).buckets
               /\ IF ~r.result.allowed
                  THEN /\ lastRequest' = [path |-> "send", emails |-> << email >>,
                                          status |-> 429]
                       /\ UNCHANGED svcVars
                  ELSE LET s == sendEmailQueued(State, email.key, email.priority,
                                                email.delay)
                       IN /\ CommitService(s.st, s.call)
                          /\ lastRequest' = [path |-> "send", emails |-> << email >>,
                                             status |-> sendStatus(s.call.ret)]

\* POST /bulk-send with a non-empty emails array of at most 100 entries
PostBulkSend(emails) ==
    /\ idsLeft(Len(emails))
    /\ LET r == bulkSend([st |-> State, call |-> NoCall], emails, 1)
       IN /\ CommitService(r.st, r.call)
          /\ lastRequest' = [path |-> "bulk-send", emails |-> emails, status |-> 200]
    /\ UNCHANGED << cbVars, rlVars, boVars >>

InitRoutes == lastRequest = NoRequest

(***************************************************************************)
(* The backoff of _sendWithProvider, in ms: the retry loop of one provider *)
(* under a configuration, with the waits it passes to _sleep.              *)
(***************************************************************************)
BackoffConfigs ==
    [maxRetries : {3, MaxBackoffRetries}, initialRetryDelay : {500, 1000},
     retryMultiplier : {1, 2}, maxRetryDelay : {1500, 30000}]

\* error.retryAfter of a retryable failure; 0 stands for an error without
\* the field (both are falsy in the test error.retryAfter ? ... : ...)
RetryAfters == {0, 200, 10000}

Min(a, b) == IF a <= b THEN a ELSE b

\* const actualDelay = error.retryAfter ? error.retryAfter * 1000 : delay
actualDelay(error, delay) ==
    IF error.retryAfter # 0 THEN error.retryAfter * 1000 ELSE delay

\* delay = Math.min(delay * retryMultiplier, maxRetryDelay)
nextDelay(config, delay) ==
    Min(delay * config.retryMultiplier, config.maxRetryDelay)

\* the catch block of attempt bo.attempt for a retryable error: throw when
\* the attempts are used up, else sleep and advance the delay
retryableFailure(bo, error) ==
    IF bo.attempt >= bo.config.maxRetries
    THEN [bo EXCEPT !.phase = "thrown"]
    ELSE [bo EXCEPT !.phase = "sleeping",
                    !.waits = Append(@, [wait |-> actualDelay(error, bo.delay),
                                         retryAfter |-> error.retryAfter]),
                    !.delay = nextDelay(bo.config, @)]

CommitBackoff(bo) ==
    /\ backoff' = bo
    /\ UNCHANGED << svcVars, cbVars, rlVars, routeVars >>

\* the provider call of the current attempt rejects, retryable
BackoffFailure(retryAfter) ==
    /\ backoff.phase = "calling"
    /\ CommitBackoff(retryableFailure(backoff, [retryable |-> TRUE,
                                                retryAfter |-> retryAfter]))

\* _sleep resolves: the loop makes its next attempt
BackoffSleepEnds ==
    /\ backoff.phase = "sleeping"
    /\ CommitBackoff([backoff EXCEPT !.phase = "calling", !.attempt = @ + 1])

\* the provider call of the current attempt resolves
BackoffSuccess ==
    /\ backoff.phase = "calling"
    /\ CommitBackoff([backoff EXCEPT !.phase = "returned"])

\* _sendWithProvider has entered the loop for its first attempt
NewBackoff(config) ==
    [config |-> config, attempt |-> 1, delay |-> config.initialRetryDelay,
     waits |-> << >>, phase |-> "calling"]

InitBackoff == backoff = NewBackoff([maxRetries |-> 3, initialRetryDelay |-> 1000,
                                     retryMultiplier |-> 2, maxRetryDelay |-> 30000])

(***************************************************************************)
(* Initial state and next-state relation of the service                    *)
(***************************************************************************)
InitService ==
    /\ enableQueue \in BOOLEAN
    /\ cache = [k \in Keys |-> NoEntry]
    /\ cleaned = Unset
    /\ jobs = [id \in Ids |-> NoJob]
    /\ queue = << >>
    /\ processing = {}
    /\ completed = << >>
    /\ failed = << >>
    /\ activeJobs = 0
    /\ isProcessing = enableQueue      \* the constructor calls emailQueue.process
    /\ raceDeadline = [id \in Ids |-> Unset]
    /\ run = [id \in Ids |-> NoRun]
    /\ nextId = 1
    /\ sendCount = [k \in Keys |-> 0]
    /\ dropped = [k \in Keys |-> FALSE]
    /\ outcome = [k \in Keys |-> NoOutcome]
    /\ lastCall = NoCall
    /\ lastDequeued = << >>
    /\ lastSettled = NoSettle
    /\ stopObs = NoStop

Init == InitService /\ InitBreaker /\ InitLimiter /\ InitRoutes /\ InitBackoff

Next ==
    \/ \E k \in Keys : SendEmail(k, 0, 0)     \* priority = 0, delay = 0 by default
    \/ ProcessJobs
    \/ \E id \in Ids, o \in Outcomes : ProviderSettles(id, o)
    \/ \E id \in Ids : SleepEnds(id)
    \/ \E id \in Ids : JobTimeout(id)
    \/ \E k \in Keys : GetEmailStatus(k)
    \/ Tick

Spec == Init /\ [][Next]_vars

(***************************************************************************)
(* EmailQueue on its own: jobs are added through add() and the registered  *)
(* processor is any async function, in flight while run[id] is "invoked".  *)
(***************************************************************************)
Resolves == [ok |-> TRUE, code |-> "none", retryable |-> TRUE]
Rejects == [ok |-> FALSE, code |-> "ERR", retryable |-> TRUE]
RejectsFinal == [ok |-> FALSE, code |-> "ERR_FINAL", retryable |-> FALSE]
Settlements == {Resolves, Rejects, RejectsFinal}

\* add(jobData, {priority, delay})
Add(priority, delay) ==
    /\ nextId \in Ids
    /\ Commit(add(State, "none", priority, delay), NoCall)

\* the poll interval fires: _processJobs
Poll ==
    /\ isProcessing
    /\ Commit(processJobs(State), NoCall)

\* the processor call of job id settles: the rest of _processJob
ProcessorSettles(id, o) ==
    /\ run[id].phase = "invoked"
    /\ LET st == [State EXCEPT !.run[id] = NoRun]
       IN Commit(IF o.ok THEN processJobResolved(st, id, sentResult(1, id))
                 ELSE processJobRejected(st, id, o), NoCall)

\* stopProcessing (EmailService.cleanup, pause): the poll interval is cleared
StopProcessing ==
    /\ isProcessing
    /\ Commit([State EXCEPT !.isProcessing = FALSE,
                            !.stop = [NoStop EXCEPT !.stopped = TRUE]], NoCall)

\* resume: startProcessing arms the poll interval again
Resume ==
    /\ ~isProcessing
    /\ Commit([State EXCEPT !.isProcessing = TRUE, !.stop = NoStop], NoCall)

\* a queue on which process(processor) has been called
InitQueue == Init /\ enableQueue = TRUE

NextQueue ==
    \/ \E priority \in Priorities, delay \in Delays : Add(priority, delay)
    \/ Poll
    \/ \E id \in Ids, o \in Settlements : ProcessorSettles(id, o)
    \/ \E id \in Ids : JobTimeout(id)
    \/ StopProcessing
    \/ Resume
    \/ Tick

SpecQueue == InitQueue /\ [][NextQueue]_vars

(***************************************************************************)
(* EmailQueue with its maintenance: the stuck-job sweep, which finds a job *)
(* only when it runs while that job's watchdog is overdue and has not      *)
(* fired yet (the event loop was held up), and cleanup(), which prunes the *)
(* histories.  The maxAge of cleanup (24 h) lies beyond the horizon.       *)
(***************************************************************************)
\* a sweep that also gives the slot of the job back
RECURSIVE cleanupStuckJobsReleasing(_, _)
cleanupStuckJobsReleasing(st, id) ==
    IF id \notin Ids THEN st
    ELSE cleanupStuckJobsReleasing(
             IF /\ id \in st.processing
                /\ st.jobs[id].status = "processing"
                /\ Passed(st.raceDeadline[id])
             THEN [st EXCEPT !.jobs[id].status = "failed",
                             !.jobs[id].errorCode = "PROCESSING_TIMEOUT",
                             !.failed = Append(@, id),
                             !.processing = @ \ {id},
                             !.activeJobs = @ - 1]
             ELSE st, id + 1)

\* _cleanupStuckJobs: the loop over the processing map, in id order
RECURSIVE cleanupStuckJobs(_, _)
cleanupStuckJobs(st, id) ==
    IF id \notin Ids THEN st
    ELSE cleanupStuckJobs(
             IF /\ id \in st.processing
                /\ st.jobs[id].status = "processing"
                /\ Passed(st.raceDeadline[id])
             THEN [st EXCEPT !.jobs[id].status = "failed",
                             !.jobs[id].errorCode = "PROCESSING_TIMEOUT",
                             !.failed = Append(@, id),
                             !.processing = @ \ {id}]
             ELSE st, id + 1)

\* slice(-n): the last n elements
lastN(q, n) == IF Len(q) <= n THEN q ELSE SubSeq(q, Len(q) - n + 1, Len(q))

\* the interval of _startStuckJobCleanup fires
CleanupStuckJobs ==
    Commit(cleanupStuckJobs(State, 1), [NoCall EXCEPT !.kind = "sweep"])

\* cleanup()
Cleanup ==
    Commit([State EXCEPT !.completed = lastN(@, keepCount),
                         !.failed = lastN(@, keepCount)],
           [NoCall EXCEPT !.kind = "cleanup"])

\* the clock advances by one unit although a watchdog is due: its callback
\* has not run yet
TickLate ==
    /\ \E id \in Ids : Reached(raceDeadline[id])
    /\ Commit([State EXCEPT
                 !.cache = [k \in Keys |-> [cache[k] EXCEPT !.expiresAt = Later(@)]],
                 !.jobs = [id \in Ids |-> [jobs[id] EXCEPT !.executeAfter = LaterDue(@),
                                                           !.notBefore = LaterDue(@)]],
                 !.raceDeadline = [id \in Ids |-> Later(raceDeadline[id])]],
              NoCall)

NextQueueSweep ==
    \/ \E priority \in Priorities, delay \in Delays : Add(priority, delay)
    \/ Poll
    \/ \E id \in Ids, o \in Settlements : ProcessorSettles(id, o)
    \/ \E id \in Ids : JobTimeout(id)
    \/ CleanupStuckJobs
    \/ Cleanup
    \/ Tick
    \/ TickLate

SpecQueueSweep == InitQueue /\ [][NextQueueSweep]_vars

(***************************************************************************)
(* EmailQueue with processing left running and every timer and processor   *)
(* call eventually firing; add() takes any number as priority              *)
(***************************************************************************)
LivePriorities == {-1} \cup Priorities

NextQueueLive ==
    \/ \E priority \in LivePriorities, delay \in Delays : Add(priority, delay)
    \/ Poll
    \/ \E id \in Ids, o \in Settlements : ProcessorSettles(id, o)
    \/ \E id \in Ids : JobTimeout(id)
    \/ Tick

\* the poll interval and the watchdog timers fire, the clock advances and a
\* processor call that is pending settles
FairQueue ==
    /\ WF_vars(Poll)
    /\ WF_vars(Tick)
    /\ \A id \in Ids : WF_vars(JobTimeout(id))
    /\ \A id \in Ids : WF_vars(\E o \in Settlements : ProcessorSettles(id, o))

SpecQueueLive == InitQueue /\ [][NextQueueLive]_vars /\ FairQueue

(***************************************************************************)
(* CircuitBreaker on its own, driven through execute, reset and forceOpen  *)
(***************************************************************************)
NextBreaker ==
    \/ Execute
    \/ CallSucceeds
    \/ \E retryable \in BOOLEAN : CallFails(retryable)
    \/ Reset
    \/ ForceOpen
    \/ TickBreaker

\* a breaker next to an idle service
InitBreakerAlone == Init /\ enableQueue = FALSE

SpecBreaker == InitBreakerAlone /\ [][NextBreaker]_vars

(***************************************************************************)
(* RateLimiter on its own, driven through checkLimit, reset, cleanup, clear *)
(***************************************************************************)
NextLimiter ==
    \/ \E ip \in Ips : CheckLimit(ip)
    \/ \E ip \in Ips : ResetKey(ip)
    \/ CleanupExpired
    \/ Clear
    \/ TickLimiter

\* a rate limiter next to an idle service
InitLimiterAlone == Init /\ enableQueue = FALSE

SpecLimiter == InitLimiterAlone /\ [][NextLimiter]_vars

(***************************************************************************)
(* The routes POST /send and POST /bulk-send in front of the queue         *)
(***************************************************************************)
NextRoutes ==
    \/ \E ip \in Ips, email \in Emails : PostSend(ip, email)
    \/ \E emails \in Bulks : PostBulkSend(emails)

SpecRoutes == InitQueue /\ [][NextRoutes]_vars

(***************************************************************************)
(* The service in direct mode behind the primary provider's breaker        *)
(***************************************************************************)
GuardedKeys == {"k1"}     \* one key: a later send finds the record or, once it expired, starts a new run

NextGuarded ==
    \/ \E k \in GuardedKeys : GuardedSend(k)
    \/ \E id \in Ids, o \in Outcomes : GuardedSettles(id, o)
    \/ \E id \in Ids : GuardedSleepEnds(id)
    \/ ForceOpen
    \/ TickGuarded

InitGuarded == Init /\ enableQueue = FALSE

SpecGuarded == InitGuarded /\ [][NextGuarded]_vars

(***************************************************************************)
(* IdempotencyManager on its own, driven through its public methods        *)
(***************************************************************************)
MarkAsPending(k) == Commit([State EXCEPT !.cache = markAsPending(@, k)], NoCall)

MarkAsCompleted(k, messageId) ==
    Commit([State EXCEPT !.cache = markAsCompleted(@, k, sentResult(1, messageId))],
           NoCall)

MarkAsFailed(k, error) ==
    /\ ~error.ok
    /\ Commit([State EXCEPT !.cache = markAsFailed(@, k, error)], NoCall)

\* get(k): the read deletes an expired entry
Get(k) == Commit([State EXCEPT !.cache = cacheAfterGet(@, k)], NoCall)

\* cleanupExpired()
CleanupExpiredEntries ==
    LET r == cleanupExpiredEntries(cache)
    IN Commit([State EXCEPT !.cache = r.cache, !.cleaned = r.cleaned], NoCall)

NextCache ==
    \/ \E k \in Keys : MarkAsPending(k)
    \/ \E k \in Keys, messageId \in Ids : MarkAsCompleted(k, messageId)
    \/ \E k \in Keys, error \in Outcomes : MarkAsFailed(k, error)
    \/ \E k \in Keys : Get(k)
    \/ CleanupExpiredEntries
    \/ Tick

InitCache == Init /\ enableQueue = FALSE

SpecCache == InitCache /\ [][NextCache]_vars

(***************************************************************************)
(* The backoff schedule alone, for every configuration of BackoffConfigs   *)
(***************************************************************************)
NextBackoff ==
    \/ \E retryAfter \in RetryAfters : BackoffFailure(retryAfter)
    \/ BackoffSleepEnds
    \/ BackoffSuccess

InitBackoffAlone ==
    /\ InitService /\ InitBreaker /\ InitLimiter /\ InitRoutes
    /\ enableQueue = FALSE
    /\ \E config \in BackoffConfigs : backoff = NewBackoff(config)

SpecBackoff == InitBackoffAlone /\ [][NextBackoff]_vars

(***************************************************************************)
(* Properties                                                              *)
(***************************************************************************)
ActiveStatuses == {"queued", "processing", "retrying"}

\* the jobs carrying key k that are queued, processing or retrying
activeJobsOf(k) == {id \in Ids : jobs[id].key = k /\ jobs[id].status \in ActiveStatuses}

\* the status getEmailStatus(k) reports when called in the current state
reportedStatus(k) == getEmailStatus(State, k).status

\* C1: for every idempotency key whose record has neither expired nor been
\* cleared, the providers' sendEmail has returned success at most once,
\* whatever the interleaving of sendEmail calls, polls, retries and timeouts.
AtMostOneSuccessPerKey ==
    \A k \in Keys : ~dropped[k] => sendCount[k] <= 1

\* C1 witness: a duplicate sendEmail has just returned for a key whose job
\* succeeded on its second queue-level run, the record never having expired.
DuplicateAfterRetriedSuccess ==
    /\ lastCall.kind = "duplicate"
    /\ lastCall.live
    /\ sendCount[lastCall.key] = 1
    /\ \E id \in Ids : jobs[id].key = lastCall.key /\ jobs[id].attempts = 2
                       /\ jobs[id].status = "completed"

\* C2 as stated: with the queue enabled, at most one job carrying a given
\* key is queued, processing or retrying at any instant.
AtMostOneActiveJobPerKey ==
    \A k \in Keys : Cardinality(activeJobsOf(k)) <= 1

\* C2 amended: with the queue enabled, for every key whose record has not
\* expired since its first submission, at most one job carrying that key is
\* queued, processing or retrying at any instant.
AtMostOneActiveJobPerLiveKey ==
    \A k \in Keys : ~dropped[k] => Cardinality(activeJobsOf(k)) <= 1

\* C2 witness: a duplicate sendEmail has just returned for a key whose
\* record is live and whose job is still queued, processing or retrying.
DuplicateWhileJobActive ==
    /\ enableQueue
    /\ lastCall.kind = "duplicate"
    /\ lastCall.live
    /\ Cardinality(activeJobsOf(lastCall.key)) = 1

\* C3: with the queue enabled, a second sendEmail with the same key, made
\* while the job of the first submission is still queued, returns status
\* 'pending'.
DuplicateWhileQueuedIsPending ==
    (lastCall.kind = "duplicate" /\ lastCall.jobQueued /\ lastCall.live)
        => lastCall.ret.status = "pending"

\* C4: a sendEmail made after the key reached a terminal outcome returns
\* that outcome: the same success flag, status, provider, messageId and
\* error code as the first call had.
DuplicateAfterTerminalSameOutcome ==
    (lastCall.kind = "duplicate" /\ lastCall.terminal /\ lastCall.live)
        => /\ lastCall.ret.success = outcome[lastCall.key].success
           /\ lastCall.ret.status = outcome[lastCall.key].status
           /\ lastCall.ret.provider = outcome[lastCall.key].provider
           /\ lastCall.ret.messageId = outcome[lastCall.key].messageId
           /\ outcome[lastCall.key].code \in {lastCall.ret.code, lastCall.ret.errorCode}

\* C5: once getEmailStatus reports 'sent' for a key it does not report
\* 'failed' afterwards, and once it reports 'failed' it does not report
\* 'sent' or a non-terminal status afterwards (the record not expiring).
StatusMonotone ==
    [][\A k \in Keys :
         ~dropped'[k] =>
            /\ reportedStatus(k) = "sent" => reportedStatus(k)' # "failed"
            /\ reportedStatus(k) = "failed" => reportedStatus(k)' \in {"failed", "not_found"}]_vars

\* the projection of a job status to the caller
projectJob(status) == IF status = "completed" THEN "sent" ELSE status

\* C6: whenever a job exists for a key, getEmailStatus reports the
\* projection of that job's status, the job taking precedence over the
\* idempotency record's own status.
JobStatusTakesPrecedence ==
    \A k \in Keys : \A id \in Ids :
        (~dropped[k] /\ get(cache, k) # NoEntry /\ jobs[id].key = k /\ getJob(State, id))
            => reportedStatus(k) = projectJob(jobs[id].status)

\* C7: _getNextJob never returns a job while the queue holds a ready job of
\* strictly higher priority.
NextJobHasHighestReadyPriority ==
    \A i \in 1..Len(lastDequeued) : lastDequeued[i].priority >= lastDequeued[i].bestReady

\* C7 witness: _getNextJob has just returned a job that was added after a
\* ready job of lower priority, which is still in the queue.
DequeuedHigherOfTwoReady ==
    /\ Len(lastDequeued) > 0
    /\ \E i \in 1..Len(queue) :
          /\ jobs[queue[i]].priority < lastDequeued[1].priority
          /\ jobs[queue[i]].executeAfter = Unset
          /\ queue[i] < lastDequeued[1].id

\* C8: no job is dequeued while now < job.executeAfter, retries included,
\* and a job added with delay d > 0 is not dequeued before add time + d.
NoDequeueBeforeExecuteAfter ==
    \A i \in 1..Len(lastDequeued) :
        /\ lastDequeued[i].executeAfter = Unset \/ lastDequeued[i].executeAfter <= 0
        /\ lastDequeued[i].notBefore = Unset \/ lastDequeued[i].notBefore <= 0

\* C8 witness: a job added with a delay has just been dequeued for its retry.
DelayedJobDequeuedForRetry ==
    /\ Len(lastDequeued) > 0
    /\ lastDequeued[1].notBefore # Unset
    /\ jobs[lastDequeued[1].id].attempts = 2

\* C9: the processor invocations started and not yet settled number at most
\* maxConcurrency.
InFlightWithinMaxConcurrency ==
    Cardinality({id \in Ids : run[id].phase # "idle"}) <= maxConcurrency

\* C10: from CLOSED the breaker opens exactly when the consecutive retryable
\* failures reach failureThreshold, setting nextAttemptTime = now + timeout,
\* and a success while CLOSED resets the failure count to 0.
OpensAtThresholdRetryableFailures ==
    /\ cbObs.opened = "failure" => cbObs.streakAtOpen = failureThreshold
    /\ cb.state = "CLOSED" => cbObs.streak < failureThreshold
    /\ (cbObs.before = "CLOSED" /\ cb.state = "OPEN" /\ cbObs.last = "retryable")
           => cb.nextAttemptTime = After(timeout)
    /\ (cbObs.before = "CLOSED" /\ cbObs.last = "success") => cb.failureCount = 0

\* C11: while the breaker is OPEN and now < nextAttemptTime every execute
\* call rejects with CIRCUIT_BREAKER_OPEN without invoking the wrapped
\* function and without touching the breaker; an execute call at or after
\* nextAttemptTime moves an OPEN breaker to HALF_OPEN and invokes the function.
OpenRejectsUntilNextAttemptTime ==
    [][cbObs'.last \in {"rejected", "admitted"} =>
          IF cb.state = "OPEN" /\ (cb.nextAttemptTime = Unset \/ cb.nextAttemptTime > 0)
          THEN cbObs'.last = "rejected" /\ cb' = cb /\ cbCalls' = cbCalls
          ELSE /\ cbObs'.last = "admitted"
               /\ cbCalls' = cbCalls + 1
               /\ cb'.state = (IF cb.state = "OPEN" THEN "HALF_OPEN" ELSE cb.state)]_vars

\* C11 witness: execute has just been let through by a breaker that was
\* OPEN, after an earlier failure opened it, and the breaker is HALF_OPEN.
AdmittedAfterOpenElapsed ==
    /\ cbObs.last = "admitted"
    /\ cbObs.before = "OPEN"
    /\ cbObs.opened = "failure"
    /\ cb.state = "HALF_OPEN"
    /\ cb.nextAttemptTime = 0

\* C12: reset() from any state, with any counters, yields CLOSED with
\* failureCount = 0, successCount = 0 and nextAttemptTime cleared.
ResetYieldsClosedZero ==
    cbObs.last = "reset" =>
        /\ cb.state = "CLOSED"
        /\ cb.failureCount = 0
        /\ cb.successCount = 0
        /\ cb.nextAttemptTime = Unset

\* C12 witness: reset() has just been applied to a breaker that was not
\* CLOSED and had counted failures.
ResetFromOpenWithFailures ==
    /\ cbObs.last = "reset"
    /\ cbObs.before # "CLOSED"
    /\ cbObs.failuresBefore > 0

\* a run is inside the attempt loop of _sendWithProvider
InLoop(r) == r.phase \in {"calling", "sleeping"}

\* C13: within one run of _processEmailDirectly each provider is attempted at
\* most maxRetries times (the attempt number never exceeds maxRetries and the
\* pair provider, attempt only grows); a retryable failure on attempt
\* n < maxRetries leads to the backoff sleep and then attempt n + 1 on the
\* same provider; the maxRetries-th retryable failure starts attempt 1 on the
\* next provider.
RetriesThenNextProvider ==
    [][\A id \in Ids :
          LET r == run[id]
              r2 == run'[id]
              f == lastSettled'
              failedRetryable == f.id = id /\ ~f.ok /\ f.retryable
          IN /\ r2.attempt <= maxRetries
             /\ (InLoop(r) /\ InLoop(r2)) =>
                    \/ r2.provider = r.provider /\ r2.attempt = r.attempt
                    \/ r2.provider = r.provider /\ r2.attempt = r.attempt + 1
                    \/ r2.provider = r.provider + 1 /\ r2.attempt = 1
             /\ (failedRetryable /\ f.attempt < maxRetries) =>
                    r2 = [r EXCEPT !.phase = "sleeping"]
             /\ (r.phase = "sleeping" /\ r2 # r) =>
                    r2 = [r EXCEPT !.phase = "calling", !.attempt = r.attempt + 1]
             /\ (failedRetryable /\ f.attempt = maxRetries /\ f.provider < Len(providers)) =>
                    r2 = [r EXCEPT !.phase = "calling", !.provider = r.provider + 1,
                                   !.attempt = 1]]_vars

\* C13 witness: the maxRetries-th attempt on primary has just failed with a
\* retryable error and the run is making attempt 1 on secondary.
MovedOnAfterMaxRetries ==
    /\ lastSettled.id # 0
    /\ lastSettled.provider = 1
    /\ lastSettled.attempt = maxRetries
    /\ lastSettled.code = "TEMPORARY_FAILURE"
    /\ run[lastSettled.id].phase = "calling"
    /\ run[lastSettled.id].provider = 2
    /\ run[lastSettled.id].attempt = 1

\* C14: when primary fails with the provider-specific non-retryable error
\* INVALID_EMAIL the run makes its next attempt on secondary, a run that has
\* reached secondary never attempts primary again, and a success on
\* secondary makes getEmailStatus report 'sent' with provider secondary.
FallbackOnProviderSpecificError ==
    [][/\ \A id \in Ids :
            /\ (lastSettled'.id = id /\ lastSettled'.provider = 1
                    /\ lastSettled'.code = "INVALID_EMAIL") =>
                   run'[id] = [run[id] EXCEPT !.phase = "calling", !.provider = 2,
                                              !.attempt = 1]
            /\ (run[id].provider = 2 /\ InLoop(run'[id])) => run'[id].provider = 2
       /\ \A k \in Keys :
            (lastSettled'.key = k /\ lastSettled'.ok /\ lastSettled'.provider = 2) =>
                /\ getEmailStatus(State, k)'.status = "sent"
                /\ getEmailStatus(State, k)'.provider = "secondary"]_vars

\* C14 witness: the first attempt on primary has just failed with
\* INVALID_EMAIL and the run is making attempt 1 on secondary.
FellBackAfterInvalidEmail ==
    /\ lastSettled.id # 0
    /\ lastSettled.code = "INVALID_EMAIL"
    /\ lastSettled.provider = 1
    /\ lastSettled.attempt = 1
    /\ run[lastSettled.id].phase = "calling"
    /\ run[lastSettled.id].provider = 2
    /\ run[lastSettled.id].attempt = 1

\* the key's processing ended with a globally non-retryable error and its
\* record has not expired since
globallyFailed(k) ==
    /\ outcome[k].status = "failed"
    /\ IsGloballyNonRetryable(outcome[k].code)
    /\ ~dropped[k]
    /\ ~isExpired(cache[k])

\* C15: a failure with retryable = false and a globally non-retryable code
\* ends the run at once (no retry on that provider, no fallback), the job is
\* failed and not re-queued, and from then on, until the record expires, no
\* provider is attempted for the key and getEmailStatus reports 'failed'
\* with that error code.
GlobalNonRetryableAborts ==
    [][/\ \A id \in Ids, k \in Keys :
            (lastSettled'.id = id /\ lastSettled'.key = k /\ ~lastSettled'.ok
                 /\ ~lastSettled'.retryable
                 /\ IsGloballyNonRetryable(lastSettled'.code)) =>
                /\ run'[id] = NoRun
                /\ enableQueue => jobs'[id].status = "failed"
                /\ id \notin SeqToSet(queue')
                /\ ~isExpired(cache'[k]) =>
                       /\ getEmailStatus(State, k)'.status = "failed"
                       /\ getEmailStatus(State, k)'.errorCode = lastSettled'.code
       /\ \A k \in Keys :
            globallyFailed(k)' =>
                /\ \A id \in Ids : run'[id].key # k
                /\ getEmailStatus(State, k)'.status = "failed"
                /\ getEmailStatus(State, k)'.errorCode = outcome'[k].code]_vars

\* C15 witness: primary has just failed a queued job's first attempt with
\* AUTHENTICATION_FAILED; the job is failed with queue retries left, no
\* success was ever produced for the key and the status reads 'failed'.
AbortedOnGlobalError ==
    /\ enableQueue
    /\ lastSettled.id # 0
    /\ lastSettled.code = "AUTHENTICATION_FAILED"
    /\ lastSettled.provider = 1
    /\ lastSettled.attempt = 1
    /\ jobs[lastSettled.id].status = "failed"
    /\ jobs[lastSettled.id].attempts < queueMaxRetries
    /\ run[lastSettled.id] = NoRun
    /\ getEmailStatus(State, lastSettled.key).errorCode = "AUTHENTICATION_FAILED"

\* C16: for each key, the i-th checkLimit call allowed since the window
\* start (i = 1..maxRequests) leaves maxRequests - i tokens, and once
\* maxRequests calls were allowed every further call is denied with
\* tokens = 0 and retryAfter > 0 until windowMs has passed since the window
\* start (the bucket's lastRefill; a deleted bucket starts a new window).
AllowsExactlyMaxRequestsPerWindow ==
    [][\A ip \in Ips :
          (rlObs'.kind = "check" /\ rlObs'.ip = ip) =>
              LET b == buckets[ip]
                  inWindow == b # NoBucket /\ now - b.lastRefill < windowMs
                  used == IF inWindow THEN rlAllowed[ip] ELSE 0
                  r == rlObs'.result
              IN IF used < maxRequests
                 THEN /\ r.allowed
                      /\ r.tokens = maxRequests - (used + 1)
                      /\ rlAllowed'[ip] = used + 1
                 ELSE /\ ~r.allowed
                      /\ r.tokens = 0
                      /\ r.retryAfter > 0
                      /\ rlAllowed'[ip] = used]_vars

\* C16 witness: a call has just been denied in the last clock step of a
\* window in which maxRequests calls were allowed.
DeniedAfterMaxRequests ==
    /\ rlObs.kind = "check"
    /\ ~rlObs.result.allowed
    /\ rlObs.result.retryAfter = 1
    /\ rlAllowed[rlObs.ip] = maxRequests
    /\ now - buckets[rlObs.ip].lastRefill = windowMs - TickMs

\* C17: a checkLimit call on an existing bucket with
\* now - lastRefill >= windowMs refills it to maxRequests, sets lastRefill to
\* now and is allowed (leaving maxRequests - 1 tokens); an earlier call
\* leaves lastRefill alone and adds no token.
RefillOnlyAfterWindow ==
    [][\A ip \in Ips :
          (rlObs'.kind = "check" /\ rlObs'.ip = ip /\ buckets[ip] # NoBucket) =>
              IF now - buckets[ip].lastRefill >= windowMs
              THEN /\ rlObs'.result.allowed
                   /\ buckets'[ip].lastRefill = now
                   /\ buckets'[ip].tokens = maxRequests - 1
              ELSE /\ buckets'[ip].lastRefill = buckets[ip].lastRefill
                   /\ buckets'[ip].tokens <= buckets[ip].tokens]_vars

\* C17 witness: a call arriving exactly windowMs after the window start of
\* an exhausted bucket has just refilled it and was allowed.
RefilledAtWindowEnd ==
    /\ rlObs.kind = "check"
    /\ rlObs.result.allowed
    /\ rlObs.before # NoBucket
    /\ rlObs.before.tokens = 0
    /\ now - rlObs.before.lastRefill = windowMs
    /\ buckets[rlObs.ip].lastRefill = now
    /\ buckets[rlObs.ip].tokens = maxRequests - 1
    /\ rlObs.result.resetTime = now + windowMs

\* C18: a checkLimit call for one key leaves the bucket of every other key
\* as it was, so a key whose bucket is untouched is served with its own
\* full token count while another key is exhausted.
OtherBucketsUntouched ==
    [][\A ip \in Ips, other \in Ips :
          (rlObs'.kind = "check" /\ rlObs'.ip = ip /\ other # ip) =>
              /\ buckets'[other] = buckets[other]
              /\ rlAllowed'[other] = rlAllowed[other]]_vars

\* C18 witness: the first call for one key has just been allowed with
\* maxRequests - 1 tokens left while the other key's bucket is exhausted
\* inside its window.
AllowedWhileOtherExhausted ==
    /\ rlObs.kind = "check"
    /\ rlObs.result.allowed
    /\ rlObs.result.tokens = maxRequests - 1
    /\ \E other \in Ips \ {rlObs.ip} :
          /\ buckets[other] # NoBucket
          /\ buckets[other].tokens = 0
          /\ now - buckets[other].lastRefill < windowMs

\* C19: after stopProcessing, and until processing is resumed, no job is
\* added to the queue and the worker poll starts no job.
NothingAdmittedOrStartedAfterStop ==
    stopObs.stopped => ~stopObs.admitted /\ ~stopObs.started

\* a job's priority and delay are inside the validated ranges
jobInRange(job) ==
    /\ job.priority \in 0..priorityMax
    /\ job.notBefore = Unset \/ job.notBefore \in 1..delayMax

\* C20: on both submission paths a request with priority outside 0..10 or
\* delay outside 0..300000 is answered 400 and no job with such a priority
\* or delay exists; a /send request with priority and delay inside the
\* ranges is not answered 400.
InvalidRequestsNeverQueued ==
    /\ \A id \in Ids : jobs[id].status # "none" => jobInRange(jobs[id])
    /\ \A i \in 1..Len(lastRequest.emails) :
          ~validateEmailRequest(lastRequest.emails[i]) => lastRequest.status = 400
    /\ (lastRequest.path = "send" /\ validateEmailRequest(lastRequest.emails[1]))
           => lastRequest.status # 400

\* the record statuses markAsCompleted and markAsFailed store
TerminalStatuses == {"completed", "failed"}

\* C21: a record that is completed or failed and has not expired is not set
\* back to pending by any step of the service.
NoReturnToPending ==
    [][\A k \in Keys :
          (cache[k].status \in TerminalStatuses /\ ~Passed(cache[k].expiresAt))
              => cache'[k].status # "pending"]_vars

\* C21 witness: sendEmail has just been called for a key whose live record
\* holds a terminal outcome and has returned the stored result, the record
\* still being completed or failed.
DuplicateLeftTerminalRecord ==
    /\ lastCall.kind = "duplicate"
    /\ lastCall.terminal
    /\ lastCall.live
    /\ cache[lastCall.key].status \in TerminalStatuses

\* the fields of a stored result that markAsCompleted / markAsFailed set
markedValue(entry) ==
    [status |-> entry.status,
     result |-> [entry.result EXCEPT !.attempts = 0, !.currentProvider = "undefined"]]

\* C22: once a live record holds a terminal outcome (failed, or completed
\* with a sent result), a later markAsCompleted or markAsFailed leaves its
\* status and result as they were.
TerminalValueKept ==
    [][\A k \in Keys :
          (isTerminal(cache[k]) /\ ~Passed(cache[k].expiresAt)
               /\ cache'[k].status \in TerminalStatuses)
              => markedValue(cache'[k]) = markedValue(cache[k])]_vars

\* C23: when a queued job's run ends because the last provider failed, the
\* record is failed with that error, the job is failed and it is not put
\* back into the queue.
ExhaustedJobNotRerun ==
    [][\A id \in Ids, k \in Keys :
          (enableQueue /\ lastSettled'.id = id /\ lastSettled'.key = k
               /\ ~lastSettled'.ok /\ run'[id] = NoRun) =>
              /\ cache'[k].status = "failed"
              /\ cache'[k].result.errorCode = lastSettled'.code
              /\ jobs'[id].status = "failed"
              /\ id \notin SeqToSet(queue')]_vars

\* C24: a job failed with PROCESSING_TIMEOUT keeps that status, is not
\* re-inserted into the queue and does not enter or leave the completed and
\* failed histories, whatever its processor settles with later.
TimedOutJobStaysFailed ==
    [][\A id \in Ids :
          (jobs[id].status = "failed" /\ jobs[id].errorCode = "PROCESSING_TIMEOUT") =>
              /\ jobs'[id].status = "failed"
              /\ jobs'[id].errorCode = "PROCESSING_TIMEOUT"
              /\ id \notin SeqToSet(queue')
              /\ (id \in SeqToSet(completed')) = (id \in SeqToSet(completed))
              /\ (id \in SeqToSet(failed')) = (id \in SeqToSet(failed))]_vars

\* C25: when execute rejects an attempt on primary because the breaker is
\* OPEN, the run makes its next attempt on secondary in the same step: it
\* does not sleep and does not stay on primary.
OpenBreakerSkipsToSecondary ==
    [][\A id \in Ids :
          (lastSettled'.id = id /\ lastSettled'.code = "CIRCUIT_BREAKER_OPEN") =>
              run'[id] = [phase |-> "calling", provider |-> 2, attempt |-> 1,
                          key |-> lastSettled'.key]]_vars

\* C26: a failure with retryable = FALSE leaves the breaker as it was: the
\* same failureCount and the same state.
NonRetryableLeavesBreakerAlone ==
    [][cbObs'.last = "nonretryable" =>
          /\ cb'.failureCount = cb.failureCount
          /\ cb'.state = cb.state]_vars

\* C27 as stated: in HALF_OPEN every failure, retryable or not, takes the
\* breaker back to OPEN with nextAttemptTime = now + timeout.
AnyHalfOpenFailureReopens ==
    [][(cb.state = "HALF_OPEN" /\ cbObs'.last \in {"retryable", "nonretryable"}) =>
          /\ cb'.state = "OPEN"
          /\ cb'.nextAttemptTime = After(timeout)]_vars

\* C27: in HALF_OPEN a success adds one to successCount and, exactly when
\* that reaches successThreshold, the breaker goes to CLOSED with
\* failureCount and successCount 0; a retryable failure takes it back to
\* OPEN with nextAttemptTime = now + timeout; a non-retryable failure
\* leaves it HALF_OPEN with successCount as it was.
HalfOpenTransitions ==
    [][cb.state = "HALF_OPEN" =>
          /\ cbObs'.last = "success" =>
                IF cb.successCount + 1 >= successThreshold
                THEN /\ cb'.state = "CLOSED"
                     /\ cb'.failureCount = 0
                     /\ cb'.successCount = 0
                ELSE /\ cb'.state = "HALF_OPEN"
                     /\ cb'.successCount = cb.successCount + 1
          /\ cbObs'.last = "retryable" =>
                /\ cb'.state = "OPEN"
                /\ cb'.nextAttemptTime = After(timeout)
          /\ cbObs'.last = "nonretryable" =>
                /\ cb'.state = "HALF_OPEN"
                /\ cb'.successCount = cb.successCount]_vars

\* C27 witness: a non-retryable failure has just been seen in HALF_OPEN
\* after a first success, and the breaker is still HALF_OPEN
HalfOpenAfterNonRetryable ==
    /\ cbObs.before = "HALF_OPEN"
    /\ cbObs.last = "nonretryable"
    /\ cb.state = "HALF_OPEN"
    /\ cb.successCount = 1

\* C28: right after execute let a call through in HALF_OPEN, that call
\* being still in flight, a further execute does not start another call.
OneProbeInHalfOpen ==
    [][(cb.state = "HALF_OPEN" /\ cbObs.last = "admitted") =>
          cbCalls' <= cbCalls]_vars

RECURSIVE Pow(_, _)
Pow(b, n) == IF n = 0 THEN 1 ELSE b * Pow(b, n - 1)

\* C29: the k-th wait of a run of retryable failures is the retryAfter of
\* the failure when it carries one, else min(initialRetryDelay *
\* retryMultiplier^(k-1), maxRetryDelay); the waits without retryAfter are
\* non-decreasing and at most maxRetryDelay.
BackoffSchedule ==
    LET c == backoff.config
        scheduled(k) == Min(c.initialRetryDelay * Pow(c.retryMultiplier, k - 1),
                            c.maxRetryDelay)
    IN \A k \in 1..Len(backoff.waits) :
          /\ backoff.waits[k].wait = IF backoff.waits[k].retryAfter # 0
                                     THEN backoff.waits[k].retryAfter
                                     ELSE scheduled(k)
          /\ backoff.waits[k].retryAfter = 0 => backoff.waits[k].wait <= c.maxRetryDelay

\* C30: the job a poll takes first is, among the ready jobs of its
\* priority that were in the queue, the one submitted earliest (job ids are
\* given in submission order).
EarliestSubmittedFirst ==
    [][Len(lastDequeued') > 0 =>
          \A i \in 1..Len(queue) :
              (isReady(jobs[queue[i]])
                  /\ jobs[queue[i]].priority = lastDequeued'[1].priority)
                  => lastDequeued'[1].id <= queue[i]]_vars

\* C31: while the record of a key is live, the attempts getEmailStatus
\* reports never go down from one step to the next, the step that makes the
\* request terminal included.
ReportedAttemptsNeverDecrease ==
    [][\A k \in Keys :
          (getEmailStatus(State, k).found /\ getEmailStatus(State, k)'.found) =>
              getEmailStatus(State, k)'.attempts >= getEmailStatus(State, k).attempts]_vars

\* C32: with processing running and every processor call settling, a job
\* that was added eventually has status completed or failed.
EveryJobSettles ==
    \A id \in Ids :
        (jobs[id].status = "queued") ~> (jobs[id].status \in {"completed", "failed"})

occurrences(q, id) == Cardinality({i \in 1..Len(q) : q[i] = id})

\* the sweep finds job id: in the processing map, status processing,
\* startedAt + jobTimeout < now
stuck(id) ==
    id \in processing /\ jobs[id].status = "processing" /\ Passed(raceDeadline[id])

\* job id was failed by the sweep and its watchdog has not fired yet
swept(id) ==
    /\ jobs[id].status = "failed"
    /\ jobs[id].errorCode = "PROCESSING_TIMEOUT"
    /\ raceDeadline[id] # Unset

\* C34: the sweep fails exactly the stuck jobs with PROCESSING_TIMEOUT,
\* takes them out of the processing map and leaves the other jobs alone;
\* a swept job is in the failed history exactly once, also after the step
\* that follows the sweep (the watchdog firing, the processor settling).
SweepFailsStuckJobsOnce ==
    [][/\ lastCall'.kind = "sweep" =>
             \A id \in Ids :
                 IF stuck(id)
                 THEN /\ jobs'[id].status = "failed"
                      /\ jobs'[id].errorCode = "PROCESSING_TIMEOUT"
                      /\ id \notin processing'
                      /\ occurrences(failed', id) = occurrences(failed, id) + 1
                 ELSE /\ jobs'[id] = jobs[id]
                      /\ (id \in processing') = (id \in processing)
                      /\ occurrences(failed', id) = occurrences(failed, id)
       /\ \A id \in Ids :
             (swept(id) /\ lastCall'.kind # "cleanup") =>
                 occurrences(failed', id) = 1]_vars

\* C35: the completed history and the failed history never hold more than
\* keepCount jobs.
HistoriesBounded ==
    /\ Len(completed) <= keepCount
    /\ Len(failed) <= keepCount

\* C37: activeJobs stays within 0..maxConcurrency, and it is the number of
\* races that have not settled: one up at the dequeue, one down when the
\* race settles.
ActiveJobsCountsOpenRaces ==
    /\ activeJobs \in 0..maxConcurrency
    /\ activeJobs = Cardinality({id \in Ids : raceDeadline[id] # Unset})

\* C37 witness: the sweep has failed a job whose race is still open, so the
\* job has left the processing map while activeJobs still counts it
SweptJobStillCounted ==
    /\ lastCall.kind = "sweep"
    /\ activeJobs = 1
    /\ processing = {}
    /\ \E id \in Ids : swept(id)

\* C38: no job has more attempts than maxRetries.
AttemptsWithinMaxRetries ==
    \A id \in Ids : jobs[id].attempts <= queueMaxRetries

\* C38 witness: a job whose first run timed out was re-queued by the late
\* continuation of its processor and is in its last run
LastRunAfterTimeout ==
    \E id \in Ids :
        /\ jobs[id].attempts = queueMaxRetries
        /\ jobs[id].status = "processing"
        /\ id \in SeqToSet(failed)

\* C36: a success counted in HALF_OPEN, and a failure that re-opens the
\* breaker from HALF_OPEN, comes from a call that execute let through
\* after the breaker entered HALF_OPEN: at that step such a call is still
\* in flight.
HalfOpenCountsOwnCalls ==
    [][(cb.state = "HALF_OPEN" /\ cbObs'.last \in {"success", "retryable"}) =>
          cbObs.fresh > 0]_vars

\* C39: every checkLimit returns the allowed flag and the token count that
\* the twin limiter, on which cleanupExpired never ran, returns for the
\* same call.
CleanupIsTransparent ==
    [][rlObs'.kind = "check" =>
          LET r == checkLimit(twin, rlObs'.ip, now').result
          IN /\ rlObs'.result.allowed = r.allowed
             /\ rlObs'.result.tokens = r.tokens]_vars

\* C39 witness: cleanupExpired deleted both buckets, one key has been
\* checked since and the other one is still without its bucket
CheckedAfterCleanup ==
    /\ rlObs.kind = "check"
    /\ rlObs.before = NoBucket
    /\ twin[rlObs.ip] = buckets[rlObs.ip]
    /\ \E ip \in Ips : buckets[ip] = NoBucket /\ twin[ip] # NoBucket

\* the containers that hold job id
holders(id) ==
    (IF id \in SeqToSet(queue) THEN 1 ELSE 0) + (IF id \in processing THEN 1 ELSE 0)
        + (IF id \in SeqToSet(completed) THEN 1 ELSE 0)
        + (IF id \in SeqToSet(failed) THEN 1 ELSE 0)

\* C40: a job whose race has settled is held by at most one of the queue,
\* the processing map, the completed history and the failed history, and
\* no job occurs more than once across the two histories.
OneContainerPerJob ==
    \A id \in Ids :
        /\ raceDeadline[id] = Unset => holders(id) <= 1
        /\ occurrences(completed, id) + occurrences(failed, id) <= 1

====
